---- MODULE Spec2Model ----
(***************************************************************************)
(* TPXA export / import of a TextPress blog.                               *)
(*                                                                         *)
(* Encoder: Writer._generate of                                            *)
(*   src/textpress_importer/shared/textpress_exporter.py ("shared" script) *)
(*   src/textpress_exporter.py                       ("standalone" script) *)
(* Decoder: parse_feed / AtomParser / TPZEAExtension of                    *)
(*   src/textpress_importer/__init__.py                                    *)
(*                                                                         *)
(* The store (posts, users, pages, plugins, participants) is chosen in     *)
(* Init and never changes.  The generator is run to exhaustion, its chunks *)
(* are collected in out (the file main() writes), and the decoder is then  *)
(* run on that file (Spec).  SpecUpload runs the decoder on documents that *)
(* come from elsewhere: other roots, any parent texts, any schemes.        *)
(***************************************************************************)
EXTENDS Integers, Sequences, FiniteSets, TLC

\* ------------------------------------------------------------- bounds
MaxUsers == 2
MaxPosts == 2
MaxPages == 1
MaxComments == 2

\* ------------------------------------------------------------- values
\* Python's None for an optional value v: <<>> is None, <<v>> is v.
None == <<>>
Some(v) == <<v>>
Val(m) == m[1]

\* datetime values are counted in half seconds; strftime('%S') drops the
\* sub-second part.
format_iso8601(obj) == obj \div 2

\* build_tag_uri(app, date, 'tpxa_export', 'full'): a tag: URI built from
\* the date.
build_tag_uri(date) == <<"tag", "tpxa_export", "full", date>>

\* The two scheme URIs of atom:category elements (shared 43-44, __init__.py
\* 31-32).
TEXTPRESS_TAG_URI == "http://textpress.pocoo.org/#tag-scheme"
TEXTPRESS_CATEGORY_URI == "http://textpress.pocoo.org/#category-scheme"

\* Text is a sequence of digit values; '' is the empty sequence.
RECURSIVE Digits(_, _)
Digits(n, base) ==
    IF n < base THEN <<n>> ELSE Append(Digits(n \div base, base), n % base)

\* '%x' % n
Hex(n) == Digits(n, 16)
\* str(n) for a non-negative int
str(n) == Digits(n, 10)

\* int(text) succeeds only on a non-empty digit string (ValueError otherwise)
IsIntLiteral(text) == Len(text) > 0 /\ \A k \in 1..Len(text) : text[k] \in 0..9
RECURSIVE int(_)
int(text) ==
    IF Len(text) = 1 THEN text[1]
    ELSE 10 * int(SubSeq(text, 1, Len(text) - 1)) + text[Len(text)]

\* ------------------------------------------------------------- the store
\* The three ways the encode-side participant classes can look:
\*   "base"   the Participant class as declared (no setup method,
\*            dump_data returns None)
\*   "silent" a subclass that defines setup and inherits dump_data
\*   "block"  a subclass that defines setup and whose dump_data returns a node
ParticipantKinds == {"base", "silent", "block"}
ParticipantLists == {<<>>} \cup {<<p>> : p \in ParticipantKinds}
ParticipantPairs == {<<p, q>> : p, q \in ParticipantKinds}

\* Which script runs, and for the shared script the state of the pages
\* plugin: not in app.plugins ("absent"), in app.plugins but its import
\* fails ("broken"), or importable ("ok").
Setups == {<<"standalone", "absent">>, <<"shared", "absent">>,
           <<"shared", "broken">>, <<"shared", "ok">>}

\* utcnow() of the export: later than every post's last_update, and not on
\* a whole second.
Now == 2 * (MaxPosts + 1) + 1

\* The k-th newest of n posts was last updated at LastUpdate(k, n):
\* Post.objects.order_by(Post.last_update.desc()) enumerates newest first.
LastUpdate(k, n) == 2 * (n - k + 1) + 1

\* comment_id is a key of the comments table: unique over all posts.
CommentId(p, j) == 8 + (p - 1) * MaxComments + j

\* The comment threads of post p: up to MaxComments comments in the order
\* post.comments lists them, each with no parent or with another comment of
\* the same post as parent, and no comment its own ancestor.
RECURSIVE Reaches(_, _, _, _)
Reaches(par, from, to, fuel) ==
    IF fuel = 0 \/ par[from] = 0 THEN FALSE
    ELSE par[from] = to \/ Reaches(par, par[from], to, fuel - 1)

Threads(p) ==
    UNION { { [j \in 1..m |->
                 [comment_id |-> CommentId(p, j),
                  parent_id  |-> IF par[j] = 0 THEN None
                                 ELSE Some(CommentId(p, par[j]))]]
              : par \in { f \in [1..m -> 0..m] :
                            \A j \in 1..m : ~Reaches(f, j, j, m) } }
            : m \in 1..MaxComments }

UserLists ==
    UNION { { [u \in 1..n |-> [user_id |-> u, is_manager |-> (u \in M)]]
              : M \in SUBSET (1..n) } : n \in 0..MaxUsers }

\* Every post's author is a user of the store (a foreign key).
PostLists(nUsers) ==
    UNION { { [k \in 1..n |->
                 [post_id |-> k, author |-> a[k],
                  last_update |-> LastUpdate(k, n), comments |-> <<>>,
                  tags |-> <<>>]]
              : a \in [1..n -> 1..nUsers] } : n \in 0..MaxPosts }

\* The post lists that differ from ps in one post, which has comments.
Commented(ps) ==
    UNION { { [ps EXCEPT ![k].comments = th] : th \in Threads(k) }
            : k \in 1..Len(ps) }

PageLists == { [k \in 1..n |-> [page_id |-> k]] : n \in 0..MaxPages }

\* The tags of a post: one tag, or two tags with different slugs, each with
\* or without a description.
Tags == [slug : {1, 2}, description : BOOLEAN]
TagLists ==
    {<<t>> : t \in Tags}
    \cup {<<tu[1], tu[2]>> : tu \in {x \in Tags \X Tags : x[1].slug # x[2].slug}}

\* The post lists that differ from ps in the tags of the first post.
Tagged(ps) == { [ps EXCEPT ![1].tags = ts] : ts \in TagLists }

\* Writer(app, description_to_category, tags_to_categories, keep_as_tags):
\* keep_as_tags is a sequence of slugs, or None when main() was given no
\* --keep-as-tag (shared 399-402, 420-421).
OptionSets ==
    [description_to_category : BOOLEAN,
     tags_to_categories : BOOLEAN,
     keep_as_tags : {None, Some({}), Some({1})}]

\* shared 152-153: the defaults of Writer.__init__, which export(app) uses.
DefaultOptions ==
    [description_to_category |-> TRUE, tags_to_categories |-> FALSE,
     keep_as_tags |-> Some({})]

\* ------------------------------------------------------------- state
VARIABLES
    script,          \* "shared" or "standalone": which exporter runs
    pages_plugin,    \* "absent", "broken", "ok"
    Post_objects,    \* Post.objects.order_by(Post.last_update.desc())
    User_objects,    \* User.objects.all()
    Page_objects,    \* textpress_pages.Page.objects.all()
    participants,    \* Writer.participants
    options,         \* the three export options of the Writer
    pc,              \* where the generator stands
    posts,           \* the local posts iterator: what it has yet to give
    pages,           \* the local pages: [bound, items]
    last_update,     \* the local last_update
    _dependencies,   \* Writer._dependencies: id -> node
    users,           \* Writer.users: user_id -> node
    db_users,        \* Writer.db_users: user_id -> user
    cursor,          \* position of the running for loop
    fake_user,       \* the user _dump_page found first, once it has looked
    out,             \* the chunks yielded so far
    err,             \* the exception that ended the generator, or "none"
    hooks,           \* the participants whose setup() has run, in that order
    _buffer,         \* _MinimalO._buffer of the generator's out
    dpc,             \* where parse_feed stands
    tree,            \* the parsed document
    next_entry,      \* position of AtomParser.parse in the entries
    authors,         \* TPParser.authors
    parsed_posts,    \* TPParser.posts
    blog,            \* TPParser.blog
    _authors,        \* TPZEAExtension._authors: dependency id -> author
    _authors_by_username,   \* AtomParser._authors_by_username
    _authors_by_email,      \* AtomParser._authors_by_email
    nobj,            \* how many objects the decoder has created
    derr,            \* the exception that ended parse_feed, or "none"
    categories,      \* TPParser.categories
    _tags,           \* TPZEAExtension._tags: term -> tag
    _categories,     \* TPZEAExtension._categories: term -> category
    _categories_by_term,    \* AtomParser._categories_by_term
    queue,           \* the dumps TextPressFeedImporter has enqueued
    handled          \* the extensions whose handle_root() has run, in that order

store == <<script, pages_plugin, Post_objects, User_objects, Page_objects,
           participants, options>>
writer == <<pc, posts, pages, last_update, _dependencies, users, db_users,
            cursor, fake_user, out, err, hooks, _buffer>>
decoder == <<dpc, tree, next_entry, authors, parsed_posts, blog, _authors,
             _authors_by_username, _authors_by_email, nobj, derr, categories,
             _tags, _categories, _categories_by_term, queue, handled>>
vars == <<store, writer, decoder>>

Unbound == [bound |-> FALSE, items |-> <<>>]
Bound(items) == [bound |-> TRUE, items |-> items]

\* The post lists written by the user enumerated first.
SameAuthor(ps) == \A k \in 1..Len(ps) : ps[k].author = 1

\* The stores explored: any users and pages within the bounds, with
\*  - any posts without comments and tags, and at most one participant, or
\*  - at most one user and one such post, and two participants, or
\*  - posts of the first user with comments on one of them, or
\*  - one user and one post with tags, exported by the shared script (the
\*    other script writes no tags) under any options.
InitStore ==
    /\ \E su \in Setups : script = su[1] /\ pages_plugin = su[2]
    /\ User_objects \in UserLists
    /\ Page_objects \in IF pages_plugin = "ok" THEN PageLists ELSE {<<>>}
    /\ \E ps \in PostLists(Len(User_objects)) :
         \/ /\ Post_objects = ps
            /\ participants \in ParticipantLists
            /\ options = DefaultOptions
         \/ /\ Len(User_objects) <= 1
            /\ Len(ps) <= 1
            /\ Post_objects = ps
            /\ participants \in ParticipantPairs
            /\ options = DefaultOptions
         \/ /\ SameAuthor(ps)
            /\ Post_objects \in Commented(ps)
            /\ participants = <<>>
            /\ options = DefaultOptions
         \/ /\ Len(User_objects) = 1
            /\ Len(ps) = 1
            /\ script = "shared"
            /\ Post_objects \in Tagged(ps)
            /\ participants = <<>>
            /\ options \in OptionSets

InitWriter ==
    /\ pc = "start"
    /\ posts = <<>>
    /\ pages = Unbound
    /\ last_update = 0
    /\ _dependencies = <<>>
    /\ users = <<>>
    /\ db_users = <<>>
    /\ cursor = 1
    /\ fake_user = None
    /\ out = <<>>
    /\ err = "none"
    /\ hooks = <<>>
    /\ _buffer = <<>>

\* ------------------------------------------------------------- encoder
\* The generator ends with an exception: nothing more is yielded.
Raise(exc) ==
    /\ pc' = "failed"
    /\ err' = exc

\* textpress_exporter.py (shared) 172-178: pages is bound only when the
\* pages plugin is installed; a failing import leaves the empty iterator.
InitialPages ==
    IF pages_plugin = "absent" THEN Unbound
    ELSE IF pages_plugin = "broken" THEN Bound(<<>>)
    ELSE Bound(Page_objects)

\* As first_items, with the first page taken before the first post: a
\* store without posts loses its first page.
first_items_page_first(ps, pg) ==
    IF ~pg.bound
    THEN [exc |-> "UnboundLocalError", posts |-> ps, pages |-> pg,
          last_update |-> Now]
    ELSE IF pg.items = <<>>
    THEN [exc |-> "none", posts |-> ps, pages |-> pg, last_update |-> Now]
    ELSE IF ps = <<>>
    THEN [exc |-> "none", posts |-> ps, pages |-> Bound(Tail(pg.items)),
          last_update |-> Now]
    ELSE [exc |-> "none", posts |-> ps, pages |-> pg,
          last_update |-> Head(ps).last_update]

\* shared 180-189: the first post and the first page are taken inside one
\* try block; StopIteration of either next() leaves last_update = now and
\* does not put back what was taken.
first_items(ps, pg) ==
    IF ps = <<>>
    THEN [exc |-> "none", posts |-> <<>>, pages |-> pg, last_update |-> Now]
    ELSE IF ~pg.bound
    THEN [exc |-> "UnboundLocalError", posts |-> Tail(ps), pages |-> pg,
          last_update |-> Now]
    ELSE IF pg.items = <<>>
    THEN [exc |-> "none", posts |-> Tail(ps), pages |-> pg,
          last_update |-> Now]
    ELSE [exc |-> "none", posts |-> ps, pages |-> pg,
          last_update |-> Head(ps).last_update]

\* standalone 153-160: only the first post is taken.
first_post(ps) ==
    IF ps = <<>>
    THEN [exc |-> "none", posts |-> <<>>, pages |-> Bound(<<>>),
          last_update |-> Now]
    ELSE [exc |-> "none", posts |-> ps, pages |-> Bound(<<>>),
          last_update |-> Head(ps).last_update]

\* The preamble chunk (XML_PREAMBLE filled in).
preamble(lu) ==
    [kind |-> "preamble", id |-> build_tag_uri(lu),
     updated |-> format_iso8601(lu)]

\* shared 170-189, standalone 152-160: the iterators and last_update.
Start ==
    /\ pc = "start"
    /\ LET r == IF script = "shared"
                THEN first_items(Post_objects, InitialPages)
                ELSE first_post(Post_objects)
       IN /\ posts' = r.posts
          /\ pages' = r.pages
          /\ last_update' = r.last_update
          /\ IF r.exc # "none"
             THEN Raise(r.exc)
             ELSE pc' = "preamble" /\ err' = err
    /\ UNCHANGED <<_dependencies, users, db_users, cursor, fake_user, out,
                   hooks, _buffer, store, decoder>>

\* shared 191-201, standalone 162-172: the feed id and the first chunk.
Preamble ==
    /\ pc = "preamble"
    /\ out' = Append(out, preamble(last_update))
    /\ pc' = "config"
    /\ UNCHANGED <<posts, pages, last_update, _dependencies, users, db_users,
                   cursor, fake_user, err, hooks, _buffer, store, decoder>>

\* participant.setup(): the Participant class declares before_dump, not
\* setup, so the call raises AttributeError on a participant that only
\* inherits.
has_setup(p) == p # "base"

\* shared 210-211: the participants whose setup() is called and returns:
\* all of them, or those before the first one without the method.
setup_calls(ps) ==
    LET missing == {k \in 1..Len(ps) : ~has_setup(ps[k])}
        last == IF missing = {} THEN Len(ps)
                ELSE (CHOOSE k \in missing : \A j \in missing : k <= j) - 1
    IN [k \in 1..last |-> k]

\* _MinimalO.write is _buffer.append (shared 103); _write puts the text
\* of the node into the buffer.
write(buffer, node) == Append(buffer, node)

\* As _get_and_clean, without `del self._buffer[:]`.
_get_and_clean_keep(buffer) == [rv |-> buffer, _buffer |-> buffer]

\* shared 105-108, standalone 92-95: what the buffer holds is returned and
\* the buffer is emptied.
_get_and_clean(buffer) == [rv |-> buffer, _buffer |-> <<>>]

\* shared 205-208, standalone 176-179: the node is written into out and
\* what out holds is the chunk.
dump_node(node, buffer) == _get_and_clean(write(buffer, node))

\* dump_node for each of the nodes in turn: the chunks and the buffer left.
RECURSIVE dump_nodes(_, _)
dump_nodes(nodes, buffer) ==
    IF nodes = <<>> THEN [rv |-> <<>>, _buffer |-> buffer]
    ELSE LET d == dump_node(Head(nodes), buffer)
             r == dump_nodes(Tail(nodes), d._buffer)
         IN [rv |-> d.rv \o r.rv, _buffer |-> r._buffer]

\* shared 210-217, standalone 181-188: every participant's setup, then the
\* configuration block.
Config ==
    /\ pc = "config"
    /\ hooks' = hooks \o setup_calls(participants)
    /\ IF \E k \in 1..Len(participants) : ~has_setup(participants[k])
       THEN Raise("AttributeError") /\ UNCHANGED <<out, cursor, _buffer>>
       ELSE /\ LET d == dump_node([kind |-> "configuration"], _buffer)
               IN out' = out \o d.rv /\ _buffer' = d._buffer
            /\ pc' = "plugins"
            /\ cursor' = 1
            /\ err' = err
    /\ UNCHANGED <<posts, pages, last_update, _dependencies, users, db_users,
                   fake_user, store, decoder>>

\* As dump_data, with the configuration block dumped inside the
\* participants loop.
dump_data_in_loop(p, k) ==
    <<[kind |-> "configuration"]>>
    \o (IF p = "block" THEN <<[kind |-> "block", of |-> k]>> ELSE <<>>)

\* As dump_data, without the test of what the participant returned.
dump_data_unchecked(p, k) == <<[kind |-> "block", of |-> k]>>

\* shared 221-223: the chunks the k-th participant, of kind p, adds: its
\* node when dump_data returns one.
dump_data(p, k) ==
    IF p = "block" THEN <<[kind |-> "block", of |-> k]>> ELSE <<>>

\* shared 220-223, standalone 191-194: one participant's dump_data.
PluginBlocks ==
    /\ pc = "plugins"
    /\ IF cursor <= Len(participants)
       THEN /\ LET d == dump_nodes(dump_data(participants[cursor], cursor),
                                   _buffer)
               IN out' = out \o d.rv /\ _buffer' = d._buffer
            /\ cursor' = cursor + 1
            /\ pc' = pc
       ELSE /\ pc' = "users"
            /\ cursor' = 1
            /\ UNCHANGED <<out, _buffer>>
    /\ UNCHANGED <<posts, pages, last_update, _dependencies, users, db_users,
                   fake_user, err, hooks, store, decoder>>

\* As dependency_id, from the size of the table itself.
dependency_id_from_zero(deps) == Hex(Cardinality(DOMAIN deps))

\* As dependency_id, with a count that never advances.
dependency_id_stuck(deps) == Hex(1)

\* shared 246-250: the id is the hexadecimal count of the table plus one.
dependency_id(deps) == Hex(Cardinality(DOMAIN deps) + 1)

new_dependency(deps, tag) ==
    LET id == dependency_id(deps)
        node == [kind |-> tag, dependency |-> id]
    IN [node |-> node, deps |-> (id :> node) @@ deps]

\* shared 252-264: the canonical node of a user.  The node is filled in
\* after it was stored; the table holds it by reference.
user_node(node, user) ==
    [kind |-> node.kind, dependency |-> node.dependency,
     username |-> user.user_id]

\* shared 226-227, standalone 197-198: one user of User.objects.all().
RegisterUsers ==
    /\ pc = "users"
    /\ IF cursor <= Len(User_objects)
       THEN LET user == User_objects[cursor]
                r == new_dependency(_dependencies, "user")
                rv == user_node(r.node, user)
            IN /\ _dependencies' = (rv.dependency :> rv) @@ r.deps
               /\ users' = (user.user_id :> rv) @@ users
               /\ db_users' = IF script = "shared"
                              THEN (user.user_id :> user) @@ db_users
                              ELSE db_users
               /\ cursor' = cursor + 1
               /\ pc' = pc
       ELSE /\ pc' = "posts"
            /\ cursor' = 1
            /\ UNCHANGED <<_dependencies, users, db_users>>
    /\ UNCHANGED <<posts, pages, last_update, fake_user, out, err, hooks,
                   _buffer, store, decoder>>

\* shared 318-319: c.parent_id is not None and str(c.parent_id) or ''
parent_text(c) ==
    IF c.parent_id # None /\ str(Val(c.parent_id)) # <<>>
    THEN str(Val(c.parent_id))
    ELSE <<>>

\* shared 303-326: the tp:comment elements of an entry.
dump_comments(cs) ==
    [j \in 1..Len(cs) |->
       [id |-> str(cs[j].comment_id), parent |-> Some(parent_text(cs[j]))]]

\* As scheme_of, with the options taken one after the other: a described
\* tag under description_to_category is a category, else any tag under
\* tags_to_categories is one, and only then the keep list is looked into.
scheme_of_in_turn(tag, opts) ==
    IF (tag.description /\ opts.description_to_category)
       \/ opts.tags_to_categories
    THEN [exc |-> "none", scheme |-> Some(TEXTPRESS_CATEGORY_URI)]
    ELSE [exc |-> "none", scheme |-> Some(TEXTPRESS_TAG_URI)]

\* As scheme_of, with `in` for `not in`.
scheme_of_kept_only(tag, opts) ==
    IF ~((tag.description /\ opts.description_to_category)
         \/ opts.tags_to_categories)
    THEN [exc |-> "none", scheme |-> Some(TEXTPRESS_TAG_URI)]
    ELSE IF opts.keep_as_tags = None
    THEN [exc |-> "TypeError", scheme |-> None]
    ELSE IF tag.slug \in Val(opts.keep_as_tags)
    THEN [exc |-> "none", scheme |-> Some(TEXTPRESS_CATEGORY_URI)]
    ELSE [exc |-> "none", scheme |-> Some(TEXTPRESS_TAG_URI)]

\* shared 328-333: the scheme of a tag's category element.  The keep list
\* is looked into only when the tag would become a category; `in None`
\* raises TypeError.
scheme_of(tag, opts) ==
    IF ~((tag.description /\ opts.description_to_category)
         \/ opts.tags_to_categories)
    THEN [exc |-> "none", scheme |-> Some(TEXTPRESS_TAG_URI)]
    ELSE IF opts.keep_as_tags = None
    THEN [exc |-> "TypeError", scheme |-> None]
    ELSE IF tag.slug \notin Val(opts.keep_as_tags)
    THEN [exc |-> "none", scheme |-> Some(TEXTPRESS_CATEGORY_URI)]
    ELSE [exc |-> "none", scheme |-> Some(TEXTPRESS_TAG_URI)]

\* shared 328-336: the atom:category elements of an entry; the standalone
\* script writes none.
dump_tags(tags) ==
    IF script # "shared" THEN <<>>
    ELSE [k \in 1..Len(tags) |->
            [term |-> tags[k].slug, scheme |-> scheme_of(tags[k], options).scheme]]

\* The exception the tags loop of _dump_post ends with, or "none".
tags_exc(tags) ==
    IF script = "shared"
       /\ \E k \in 1..Len(tags) : scheme_of(tags[k], options).exc # "none"
    THEN "TypeError"
    ELSE "none"

\* shared 266-340, standalone 232-293: the entry of a post.  Its author
\* element is stamped with the dependency id of the node registered for
\* post.author.user_id and holds the author's display name and email (a
\* user's id stands for both); the standalone script writes no
\* tp:content_type.
_dump_post(post) ==
    [kind |-> "entry",
     content_type |-> IF script = "shared" THEN Some("entry") ELSE None,
     tp_id |-> str(post.post_id),
     updated |-> format_iso8601(post.last_update),
     dependency |-> Some(users[post.author].dependency),
     name |-> Some(post.author),
     email |-> Some(post.author),
     comments |-> dump_comments(post.comments),
     categories |-> dump_tags(post.tags)]

\* shared 230-231, standalone 201-202: one post of the posts iterator.
DumpPosts ==
    /\ pc = "posts"
    /\ IF posts # <<>>
       THEN LET post == Head(posts)
            IN IF post.author \notin DOMAIN users
               THEN Raise("KeyError") /\ UNCHANGED <<posts, out, _buffer>>
               ELSE IF tags_exc(post.tags) # "none"
               THEN /\ Raise(tags_exc(post.tags))
                    /\ UNCHANGED <<posts, out, _buffer>>
               ELSE /\ LET d == dump_node(_dump_post(post), _buffer)
                       IN out' = out \o d.rv /\ _buffer' = d._buffer
                    /\ posts' = Tail(posts)
                    /\ UNCHANGED <<pc, err>>
       ELSE /\ pc' = IF script = "shared" THEN "pages" ELSE "dependencies"
            /\ UNCHANGED <<posts, out, err, _buffer>>
    /\ UNCHANGED <<pages, last_update, _dependencies, users, db_users, cursor,
                   fake_user, hooks, store, decoder>>

\* As managers, without the is_manager filter.
managers_unfiltered(db) == DOMAIN db

\* shared 345: [u for u in self.db_users if self.db_users[u].is_manager]
managers(db) == {u \in DOMAIN db : db[u].is_manager}

\* shared 342-375: the entry of a page, written in the name of user.
_dump_page(page, user) ==
    [kind |-> "entry",
     content_type |-> Some("page"),
     tp_id |-> str(page.page_id),
     updated |-> format_iso8601(Now),
     dependency |-> Some(users[user].dependency),
     name |-> Some(user),
     email |-> Some(user),
     comments |-> <<>>,
     categories |-> <<>>]

\* shared 234-235: one page of pages.  pages is read here for the first
\* time when the store has no post.  The first manager of db_users is the
\* first in the order the dictionary iterates, which is any order, and the
\* same order for every page.
DumpPages ==
    /\ pc = "pages"
    /\ IF ~pages.bound
       THEN /\ Raise("UnboundLocalError")
            /\ UNCHANGED <<pages, fake_user, out, _buffer>>
       ELSE IF pages.items # <<>>
       THEN IF managers(db_users) = {}
            THEN /\ Raise("IndexError")
                 /\ UNCHANGED <<pages, fake_user, out, _buffer>>
            ELSE \E user \in managers(db_users) :
                   /\ fake_user \in {None, Some(user)}
                   /\ fake_user' = Some(user)
                   /\ LET d == dump_node(_dump_page(Head(pages.items), user),
                                         _buffer)
                      IN out' = out \o d.rv /\ _buffer' = d._buffer
                   /\ pages' = Bound(Tail(pages.items))
                   /\ UNCHANGED <<pc, err>>
       ELSE /\ pc' = "dependencies"
            /\ UNCHANGED <<pages, fake_user, out, err, _buffer>>
    /\ UNCHANGED <<posts, last_update, _dependencies, users, db_users, cursor,
                   hooks, store, decoder>>

\* As has_dependencies, without the test.
has_dependencies_always(deps) == TRUE

\* shared 238: if self._dependencies
has_dependencies(deps) == DOMAIN deps # {}

\* shared 238-239, standalone 205-206: the container is opened only for a
\* non-empty table.
Dependencies ==
    /\ pc = "dependencies"
    /\ IF has_dependencies(_dependencies)
       THEN /\ out' = Append(out, [kind |-> "dependencies_open"])
            /\ pc' = "nodes"
       ELSE /\ out' = out
            /\ pc' = "epilog"
    /\ UNCHANGED <<posts, pages, last_update, _dependencies, users, db_users,
                   cursor, fake_user, err, hooks, _buffer, store, decoder>>

\* The ids of the canonical nodes already yielded.
dumped == {out[k].dependency : k \in {j \in 1..Len(out) : out[j].kind = "user"}}

\* shared 240-242, standalone 207-209: itervalues() gives every node of the
\* dictionary once, in the dictionary's own order; then the container is
\* closed.
DependencyNodes ==
    /\ pc = "nodes"
    /\ IF DOMAIN _dependencies \ dumped # {}
       THEN \E id \in DOMAIN _dependencies \ dumped :
              /\ LET d == dump_node(_dependencies[id], _buffer)
                 IN out' = out \o d.rv /\ _buffer' = d._buffer
              /\ pc' = pc
       ELSE /\ out' = Append(out, [kind |-> "dependencies_close"])
            /\ pc' = "epilog"
            /\ _buffer' = _buffer
    /\ UNCHANGED <<posts, pages, last_update, _dependencies, users, db_users,
                   cursor, fake_user, err, hooks, store, decoder>>

\* shared 244, standalone 211: XML_EPILOG, and the generator is exhausted.
Epilog ==
    /\ pc = "epilog"
    /\ out' = Append(out, [kind |-> "epilog"])
    /\ pc' = "done"
    /\ UNCHANGED <<posts, pages, last_update, _dependencies, users, db_users,
                   cursor, fake_user, err, hooks, _buffer, store, decoder>>

\* ------------------------------------------------------------- decoder
InitDecoder ==
    /\ dpc = "idle"
    /\ tree = [tag |-> "none", entries |-> <<>>, dependencies |-> None]
    /\ next_entry = 1
    /\ authors = <<>>
    /\ parsed_posts = <<>>
    /\ blog = None
    /\ _authors = <<>>
    /\ _authors_by_username = <<>>
    /\ _authors_by_email = <<>>
    /\ nobj = 0
    /\ derr = "none"
    /\ categories = <<>>
    /\ _tags = <<>>
    /\ _categories = <<>>
    /\ _categories_by_term = <<>>
    /\ queue = <<>>
    /\ handled = <<>>

\* How many dependencies containers are open before chunk k.
RECURSIVE Depth(_, _)
Depth(chunks, k) ==
    IF k <= 1 THEN 0
    ELSE Depth(chunks, k - 1)
         + (IF chunks[k - 1].kind = "dependencies_open" THEN 1 ELSE 0)
         - (IF chunks[k - 1].kind = "dependencies_close" THEN 1 ELSE 0)

\* etree.parse accepts the concatenated chunks when the feed element the
\* preamble opens is closed by the epilogue and every container opened in
\* between is closed.
well_formed(chunks) ==
    /\ Len(chunks) >= 2
    /\ chunks[1].kind = "preamble"
    /\ chunks[Len(chunks)].kind = "epilog"
    /\ \A k \in 2..(Len(chunks) - 1) : chunks[k].kind \notin {"preamble", "epilog"}
    /\ \A k \in 1..Len(chunks) :
         /\ chunks[k].kind = "dependencies_open" => Depth(chunks, k) = 0
         /\ chunks[k].kind = "dependencies_close" => Depth(chunks, k) = 1
    /\ Depth(chunks, Len(chunks)) = 0

\* The children of chunk sequence cs that are direct children of the feed
\* element (lo = 0) or of its first dependencies container (lo = 1).
RECURSIVE ChildrenAt(_, _, _, _)
ChildrenAt(chunks, k, kind, lo) ==
    IF k > Len(chunks) THEN <<>>
    ELSE IF lo = 1 /\ chunks[k].kind = "dependencies_close" THEN <<>>
    ELSE (IF chunks[k].kind = kind /\ Depth(chunks, k) = lo
          THEN <<chunks[k]>> ELSE <<>>)
         \o ChildrenAt(chunks, k + 1, kind, lo)

\* The tree etree.parse(fd).getroot() gives: the feed's entry children in
\* document order, and what root.find(textpress.dependencies) gives (316,
\* 372): the user children of the first container, or None.
document(chunks) ==
    [tag |-> "feed",
     entries |-> ChildrenAt(chunks, 1, "entry", 0),
     dependencies |->
        IF \E k \in 1..Len(chunks) : chunks[k].kind = "dependencies_open"
        THEN Some(ChildrenAt(chunks, 1, "user", 1))
        ELSE None]

\* As parser_class, with the Atom parser for every root that is not rss.
parser_class_no_else(tag) ==
    IF tag = "rss" THEN "RSSParser" ELSE "AtomParser"

\* __init__.py 93-98: the parser class for the root tag.
parser_class(tag) ==
    IF tag = "rss" THEN "RSSParser"
    ELSE IF tag = "feed" THEN "AtomParser"
    ELSE "none"

UnknownFeed == "FeedImportError: Unknown feed uploaded."
RSSNotPossible ==
    "FeedImportError: Importing of RSS feeds is currently not possible."

\* 93-99, 107-117, 143-145, 151-160, 367-375: the parser class is chosen
\* by the root tag and constructed on the tree; RSSParser's constructor
\* raises, AtomParser's makes the parser and its extension.
select_parser(root) ==
    /\ tree' = root
    /\ IF parser_class(root.tag) = "none"
       THEN dpc' = "failed" /\ derr' = UnknownFeed
       ELSE IF parser_class(root.tag) = "RSSParser"
       THEN dpc' = "failed" /\ derr' = RSSNotPossible
       ELSE dpc' = "entries" /\ derr' = derr

\* 341-342 with 92: configure calls parse_feed on the file the export
\* left, whether the generator was exhausted or ended with an exception.
ParseFeed ==
    /\ dpc = "idle"
    /\ pc \in {"done", "failed"}
    /\ IF ~well_formed(out)
       THEN /\ dpc' = "failed"
            /\ derr' = "XMLSyntaxError"
            /\ tree' = tree
       ELSE select_parser(document(out))
    /\ UNCHANGED <<next_entry, authors, parsed_posts, blog, _authors,
                   _authors_by_username, _authors_by_email, nobj, categories,
                   _tags, _categories, _categories_by_term, queue, handled,
                   store, writer>>

NoAuthor == [oid |-> 0, username |-> None, email |-> None]

\* 374-375, 387: tp:user[@tp:dependency=$id] below the dependencies element.
_lookup_user(deps, id) ==
    SelectSeq(Val(deps), LAMBDA e : e.dependency = id)

\* As _get_author, without the look into the cache.
_get_author_uncached(dependency, cache, list, n) ==
    IF tree.dependencies = None
    THEN [exc |-> "TypeError", author |-> NoAuthor, _authors |-> cache,
          authors |-> list, nobj |-> n]
    ELSE IF _lookup_user(tree.dependencies, dependency) = <<>>
    THEN [exc |-> "IndexError", author |-> NoAuthor, _authors |-> cache,
          authors |-> list, nobj |-> n]
    ELSE LET element == _lookup_user(tree.dependencies, dependency)[1]
             author == [oid |-> n + 1,
                        username |-> Some(element.username),
                        email |-> None]
         IN [exc |-> "none", author |-> author,
             _authors |-> (dependency :> author) @@ cache,
             authors |-> Append(list, author), nobj |-> n + 1]

\* 384-404: the author of a dependency id: the cached one, or a new one
\* built from the canonical element, cached and appended to parser.authors.
\* The exporter's user element has a tp:username child and no tp:email.
_get_author(dependency, cache, list, n) ==
    IF dependency \in DOMAIN cache
    THEN [exc |-> "none", author |-> cache[dependency], _authors |-> cache,
          authors |-> list, nobj |-> n]
    ELSE IF tree.dependencies = None
    THEN [exc |-> "TypeError", author |-> NoAuthor, _authors |-> cache,
          authors |-> list, nobj |-> n]
    ELSE IF _lookup_user(tree.dependencies, dependency) = <<>>
    THEN [exc |-> "IndexError", author |-> NoAuthor, _authors |-> cache,
          authors |-> list, nobj |-> n]
    ELSE LET element == _lookup_user(tree.dependencies, dependency)[1]
             author == [oid |-> n + 1,
                        username |-> Some(element.username),
                        email |-> None]
         IN [exc |-> "none", author |-> author,
             _authors |-> (dependency :> author) @@ cache,
             authors |-> Append(list, author), nobj |-> n + 1]

\* 237-243: first seen wins in both caches.
_remember_email(author, by_email) ==
    IF author.email # None /\ Val(author.email) \notin DOMAIN by_email
    THEN (Val(author.email) :> author) @@ by_email
    ELSE by_email

\* As _remember_username, with the last author seen winning.
_remember_username_last(author, by_username) ==
    IF author.username # None
    THEN (Val(author.username) :> author) @@ by_username
    ELSE by_username

_remember_username(author, by_username) ==
    IF author.username # None /\ Val(author.username) \notin DOMAIN by_username
    THEN (Val(author.username) :> author) @@ by_username
    ELSE by_username

\* 235-263 with 430-433: the author of an entry.  The extension's
\* lookup_author answers when the author element has a tp:dependency
\* attribute; otherwise the author is found by email, then by username, or
\* is made new.
parse_author(entry, n) ==
    IF entry.dependency # None
    THEN LET r == _get_author(Val(entry.dependency), _authors, authors, n)
         IN [exc |-> r.exc, author |-> r.author, _authors |-> r._authors,
             authors |-> r.authors, nobj |-> r.nobj,
             by_email |-> IF r.exc = "none"
                          THEN _remember_email(r.author, _authors_by_email)
                          ELSE _authors_by_email,
             by_username |-> IF r.exc = "none"
                             THEN _remember_username(r.author,
                                                     _authors_by_username)
                             ELSE _authors_by_username]
    ELSE IF entry.email # None /\ Val(entry.email) \in DOMAIN _authors_by_email
    THEN [exc |-> "none", author |-> _authors_by_email[Val(entry.email)],
          _authors |-> _authors, authors |-> authors, nobj |-> n,
          by_email |-> _authors_by_email,
          by_username |-> _authors_by_username]
    ELSE IF entry.name # None /\ Val(entry.name) \in DOMAIN _authors_by_username
    THEN [exc |-> "none", author |-> _authors_by_username[Val(entry.name)],
          _authors |-> _authors, authors |-> authors, nobj |-> n,
          by_email |-> _authors_by_email,
          by_username |-> _authors_by_username]
    ELSE LET author == [oid |-> n + 1, username |-> entry.name,
                        email |-> entry.email]
         IN [exc |-> "none", author |-> author, _authors |-> _authors,
             authors |-> Append(authors, author), nobj |-> n + 1,
             by_email |-> _remember_email(author, _authors_by_email),
             by_username |-> _remember_username(author, _authors_by_username)]

\* Python's truth value of a text.
truth(text) == text # <<>>

\* 477: if parent is not None or '':
declares_parent(parent) == (parent # None) \/ truth(<<>>)

\* 446-478: the first loop of the extension's parse_comments, from element
\* k on.  The exporter writes every comment author inline, so author is the
\* tp:name text.  acc holds comments (comment id -> comment),
\* unresolved_parents (comment -> parent id), the object count, and the
\* exception that ended the loop.
RECURSIVE collect_comments(_, _, _)
collect_comments(elements, k, acc) ==
    IF k > Len(elements) \/ acc.exc # "none" THEN acc
    ELSE LET element == elements[k]
             comment == [oid |-> acc.nobj + 1, parent |-> None]
             parent == element.parent
         IN IF ~IsIntLiteral(element.id)
            THEN [acc EXCEPT !.exc = "ValueError", !.nobj = acc.nobj + 1]
            ELSE LET stored == [acc EXCEPT
                                  !.comments = (int(element.id) :> comment)
                                               @@ acc.comments,
                                  !.nobj = acc.nobj + 1]
                 IN IF ~declares_parent(parent)
                    THEN collect_comments(elements, k + 1, stored)
                    ELSE IF ~IsIntLiteral(Val(parent))
                    THEN [stored EXCEPT !.exc = "ValueError"]
                    ELSE collect_comments(elements, k + 1,
                           [stored EXCEPT !.unresolved_parents =
                              (comment.oid :> int(Val(parent)))
                              @@ stored.unresolved_parents])

\* As resolve_parents, with comments.get(parent_id): a comment whose parent
\* id is missing keeps no parent.
resolve_parents_lenient(acc) ==
    IF acc.exc # "none" THEN acc
    ELSE [acc EXCEPT !.comments =
            [id \in DOMAIN acc.comments |->
               LET comment == acc.comments[id]
               IN IF /\ comment.oid \in DOMAIN acc.unresolved_parents
                     /\ acc.unresolved_parents[comment.oid]
                          \in DOMAIN acc.comments
                  THEN [comment EXCEPT !.parent =
                          Some(acc.comments[acc.unresolved_parents[comment.oid]].oid)]
                  ELSE comment]]

\* 480-483: every unresolved comment gets the comment stored under its
\* parent id as parent; a missing id is a KeyError.  The result is the
\* dictionary whose values() become post.comments.
resolve_parents(acc) ==
    IF acc.exc # "none" THEN acc
    ELSE IF \E c \in DOMAIN acc.unresolved_parents :
              acc.unresolved_parents[c] \notin DOMAIN acc.comments
    THEN [acc EXCEPT !.exc = "KeyError"]
    ELSE [acc EXCEPT !.comments =
            [id \in DOMAIN acc.comments |->
               LET comment == acc.comments[id]
               IN IF comment.oid \in DOMAIN acc.unresolved_parents
                  THEN [comment EXCEPT !.parent =
                          Some(acc.comments[acc.unresolved_parents[comment.oid]].oid)]
                  ELSE comment]]

\* As parse_comments, with the parent looked up while its comment element
\* is parsed: a parent id of a later element is a KeyError.
parse_comments_one_pass(entry, n) ==
    LET acc == collect_comments(entry.comments, 1,
                                [exc |-> "none", comments |-> <<>>,
                                 unresolved_parents |-> <<>>, nobj |-> n])
    IN IF /\ acc.exc = "none"
          /\ \E j \in 1..Len(entry.comments) :
                /\ entry.comments[j].parent # None
                /\ \A i \in 1..j : int(entry.comments[i].id)
                                      # int(Val(entry.comments[j].parent))
       THEN [acc EXCEPT !.exc = "KeyError"]
       ELSE resolve_parents(acc)

\* 442-483, called from 297-300.
parse_comments(entry, n) ==
    resolve_parents(
        collect_comments(entry.comments, 1,
                         [exc |-> "none", comments |-> <<>>,
                          unresolved_parents |-> <<>>, nobj |-> n]))


\* zine.importers.Tag(term, label) and Category(term, label, description),
\* as the n+1-st object of the decode.
Tag(term, n) == [oid |-> n + 1, class |-> "Tag", term |-> term]
Category(term, n) == [oid |-> n + 1, class |-> "Category", term |-> term]

\* 406-410.  st is the state parse_categories works on: the entry's tags
\* and categories, parser.categories, the extension's _tags and
\* _categories, the parser's _categories_by_term and the object count.
_parse_tag(element, st) ==
    IF element.term \in DOMAIN st._tags
    THEN [rv |-> Some(st._tags[element.term]), st |-> st]
    ELSE LET tag == Tag(element.term, st.nobj)
         IN [rv |-> Some(tag),
             st |-> [st EXCEPT !._tags = (element.term :> tag) @@ @,
                               !.nobj = @ + 1]]

\* 412-419
_parse_category(element, st) ==
    IF element.term \in DOMAIN st._categories
    THEN [rv |-> Some(st._categories[element.term]), st |-> st]
    ELSE LET category == Category(element.term, st.nobj)
         IN [rv |-> Some(category),
             st |-> [st EXCEPT !._categories = (element.term :> category) @@ @,
                               !.nobj = @ + 1]]

\* 435-440: the extension claims an element by its scheme attribute.
tag_or_category(element, st) ==
    IF element.scheme = Some(TEXTPRESS_TAG_URI)
    THEN _parse_tag(element, st)
    ELSE IF element.scheme = Some(TEXTPRESS_CATEGORY_URI)
    THEN _parse_category(element, st)
    ELSE [rv |-> None, st |-> st]

\* 269-272
_remember_category(category, element, by_term) ==
    IF element.term \notin DOMAIN by_term
    THEN (element.term :> category) @@ by_term
    ELSE by_term

\* As parse_category, with a base rule that never looks into
\* _categories_by_term.
parse_category_uncached(element, st) ==
    LET r == tag_or_category(element, st)
    IN IF r.rv # None
       THEN IF Val(r.rv).class = "Category"
            THEN [r.st EXCEPT
                    !.categories = Append(@, Val(r.rv)),
                    !.by_term = _remember_category(Val(r.rv), element, @)]
            ELSE [r.st EXCEPT !.tags = Append(@, Val(r.rv))]
       ELSE LET rv == Category(element.term, st.nobj)
            IN [st EXCEPT !.categories = Append(@, rv),
                          !.by_term = _remember_category(rv, element, @),
                          !.parser_categories = Append(@, rv),
                          !.nobj = @ + 1]

\* 278-294: one category element of the entry.
parse_category(element, st) ==
    LET r == tag_or_category(element, st)
    IN IF r.rv # None
       THEN IF Val(r.rv).class = "Category"
            THEN [r.st EXCEPT
                    !.categories = Append(@, Val(r.rv)),
                    !.by_term = _remember_category(Val(r.rv), element, @)]
            ELSE [r.st EXCEPT !.tags = Append(@, Val(r.rv))]
       ELSE IF element.term \in DOMAIN st.by_term
       THEN [st EXCEPT !.categories = Append(@, st.by_term[element.term])]
       ELSE LET rv == Category(element.term, st.nobj)
            IN [st EXCEPT !.categories = Append(@, rv),
                          !.by_term = _remember_category(rv, element, @),
                          !.parser_categories = Append(@, rv),
                          !.nobj = @ + 1]

\* 265-295: the elements from the k-th on.
RECURSIVE parse_categories(_, _, _)
parse_categories(elements, k, st) ==
    IF k > Len(elements) THEN st
    ELSE parse_categories(elements, k + 1, parse_category(elements[k], st))

\* 180-233 and 425-428: one entry becomes a post.  The categories are
\* parsed first, the author is looked up while the Post is constructed,
\* the comments are parsed after it.  An exception ends parse_feed; what
\* parse_categories and parse_author changed stays changed.
ParsePost ==
    /\ dpc = "entries"
    /\ next_entry <= Len(tree.entries)
    /\ LET entry == tree.entries[next_entry]
           t == parse_categories(entry.categories, 1,
                  [tags |-> <<>>, categories |-> <<>>,
                   parser_categories |-> categories, _tags |-> _tags,
                   _categories |-> _categories,
                   by_term |-> _categories_by_term, nobj |-> nobj])
           a == parse_author(entry, t.nobj)
           c == parse_comments(entry, a.nobj)
           post == [tp_id |-> entry.tp_id,
                    content_type |-> IF entry.content_type = None
                                     THEN "entry"
                                     ELSE Val(entry.content_type),
                    author |-> a.author,
                    comments |-> c.comments,
                    tags |-> t.tags,
                    categories |-> t.categories]
       IN /\ categories' = t.parser_categories
          /\ _tags' = t._tags
          /\ _categories' = t._categories
          /\ _categories_by_term' = t.by_term
          /\ authors' = a.authors
          /\ _authors' = a._authors
          /\ _authors_by_email' = a.by_email
          /\ _authors_by_username' = a.by_username
          /\ IF a.exc # "none"
             THEN /\ dpc' = "failed"
                  /\ derr' = a.exc
                  /\ nobj' = a.nobj
                  /\ UNCHANGED <<parsed_posts, next_entry>>
             ELSE IF c.exc # "none"
             THEN /\ dpc' = "failed"
                  /\ derr' = c.exc
                  /\ nobj' = c.nobj
                  /\ UNCHANGED <<parsed_posts, next_entry>>
             ELSE /\ parsed_posts' = Append(parsed_posts, post)
                  /\ next_entry' = next_entry + 1
                  /\ nobj' = c.nobj
                  /\ UNCHANGED <<dpc, derr>>
    /\ UNCHANGED <<tree, blog, queue, handled, store, writer>>

\* 115-117 with 490: the extensions of the parser, in the order they were
\* registered; this plugin registers one for atom feeds.
extensions == <<"TPZEAExtension">>

\* As handle_roots, with the loop inside the loop over the entries.
handle_roots_per_entry(calls) ==
    calls \o [i \in 1..(Len(parsed_posts) * Len(extensions)) |->
                extensions[((i - 1) % Len(extensions)) + 1]]

\* 177-178: every extension's handle_root, in the order of the list.
handle_roots(calls) == calls \o extensions

\* 166-178 and 421-423, then 101: after the last entry the Blog is built
\* from the parser's lists (nothing is ever appended to parser.tags), the
\* extension's handle_root merges the configuration into it, and
\* parse_feed returns it.
BuildBlog ==
    /\ dpc = "entries"
    /\ next_entry > Len(tree.entries)
    /\ blog' = Some([posts |-> parsed_posts, authors |-> authors,
                     tags |-> <<>>, categories |-> categories,
                     configuration |-> TRUE])
    /\ handled' = handle_roots(handled)
    /\ dpc' = "done"
    /\ UNCHANGED <<tree, next_entry, authors, parsed_posts, _authors,
                   _authors_by_username, _authors_by_email, nobj, derr,
                   categories, _tags, _categories, _categories_by_term,
                   queue, store, writer>>

\* As Report, with what the parser had built put into the queue.
Report_partial ==
    /\ dpc = "failed"
    /\ dpc' = "reported"
    /\ queue' = Append(queue, [posts |-> parsed_posts, authors |-> authors,
                               tags |-> <<>>, categories |-> categories,
                               configuration |-> FALSE])
    /\ UNCHANGED <<tree, next_entry, authors, parsed_posts, blog, _authors,
                   _authors_by_username, _authors_by_email, nobj, derr,
                   categories, _tags, _categories, _categories_by_term,
                   handled, store, writer>>

\* 343-346: configure catches whatever parse_feed raised, logs and flashes
\* it, and renders the form again.
Report ==
    /\ dpc = "failed"
    /\ dpc' = "reported"
    /\ UNCHANGED <<tree, next_entry, authors, parsed_posts, blog, _authors,
                   _authors_by_username, _authors_by_email, nobj, derr,
                   categories, _tags, _categories, _categories_by_term,
                   queue, handled, store, writer>>

\* 347-350: parse_feed returned: the blog is enqueued.
Enqueue ==
    /\ dpc = "done"
    /\ queue' = Append(queue, Val(blog))
    /\ dpc' = "enqueued"
    /\ UNCHANGED <<tree, next_entry, authors, parsed_posts, blog, _authors,
                   _authors_by_username, _authors_by_email, nobj, derr,
                   categories, _tags, _categories, _categories_by_term,
                   handled, store, writer>>

\* ------------------------------------------------------------- the system
Init == InitStore /\ InitWriter /\ InitDecoder

Next ==
    \/ Start
    \/ Preamble
    \/ Config
    \/ PluginBlocks
    \/ RegisterUsers
    \/ DumpPosts
    \/ DumpPages
    \/ Dependencies
    \/ DependencyNodes
    \/ Epilog
    \/ ParseFeed
    \/ ParsePost
    \/ BuildBlog
    \/ Report
    \/ Enqueue

Spec == Init /\ [][Next]_vars

\* ------------------------------------------------- uploads of other files
\* The importer takes any file the administrator uploads or names by URL
\* (320-331), not only what the exporter wrote.  The documents explored
\* have a root tag, entries with one author each (citing the one user node
\* of the dependencies element), comments and category elements.
UploadDependencies ==
    Some(<<[kind |-> "user", dependency |-> Hex(1), username |-> 1]>>)

UploadEntry(p, comments, cats) ==
    [kind |-> "entry", content_type |-> Some("entry"), tp_id |-> str(p),
     updated |-> 1, dependency |-> Some(Hex(1)), name |-> Some(1),
     email |-> Some(1), comments |-> comments, categories |-> cats]

\* What a tp:comment element can say about its parent: no tp:parent
\* element, an empty one, or the id of a comment of the first entry, of
\* the second entry, or of no entry.
ParentTexts ==
    {None, Some(<<>>)}
    \cup {Some(str(CommentId(1, j))) : j \in 1..MaxComments}
    \cup {Some(str(CommentId(2, 1))), Some(str(CommentId(3, 1)))}

UploadThreads ==
    UNION { { [j \in 1..m |-> [id |-> str(CommentId(1, j)), parent |-> par[j]]]
              : par \in [1..m -> ParentTexts] } : m \in 1..MaxComments }

\* Documents whose first entry has comments; a second entry, if any, has
\* at most one comment, without tp:parent or with an empty one.
CommentDocuments ==
    { [tag |-> "feed", entries |-> <<UploadEntry(1, th, <<>>)>> \o second,
       dependencies |-> UploadDependencies]
      : th \in UploadThreads,
        second \in {<<>>, <<UploadEntry(2, <<>>, <<>>)>>,
                    <<UploadEntry(2, <<[id |-> str(CommentId(2, 1)),
                                        parent |-> None]>>, <<>>)>>,
                    <<UploadEntry(2, <<[id |-> str(CommentId(2, 1)),
                                        parent |-> Some(<<>>)]>>, <<>>)>>} }

\* atom:category elements: one of two terms, with the tag scheme, the
\* category scheme or no scheme attribute.
CategoryElements ==
    [term : {1, 2},
     scheme : {Some(TEXTPRESS_TAG_URI), Some(TEXTPRESS_CATEGORY_URI), None}]

\* Documents whose first entry has one or two category elements; a second
\* entry, if any, has at most one.
CategoryDocuments ==
    { [tag |-> "feed", entries |-> <<UploadEntry(1, <<>>, cats)>> \o second,
       dependencies |-> UploadDependencies]
      : cats \in {<<c>> : c \in CategoryElements}
                 \cup {<<c, d>> : c, d \in CategoryElements},
        second \in {<<>>, <<UploadEntry(2, <<>>, <<>>)>>}
                   \cup {<<UploadEntry(2, <<>>, <<c>>)>>
                           : c \in CategoryElements} }

\* Documents with another root element than atom:feed.
OtherDocuments ==
    { [tag |-> t, entries |-> es, dependencies |-> UploadDependencies]
      : t \in {"rss", "html"},
        es \in {<<>>, <<UploadEntry(1, <<>>, <<>>)>>} }

\* An entry whose atom:author has or lacks the tp:dependency attribute,
\* an atom:name and an atom:email.
AuthorEntry(p, author) ==
    [UploadEntry(p, <<>>, <<>>) EXCEPT !.dependency = author.dependency,
                                      !.name = author.name,
                                      !.email = author.email]

AuthorElements ==
    [dependency : {None}, name : {None, Some(1), Some(2)},
     email : {None, Some(1), Some(2)}]
    \cup {[dependency |-> Some(Hex(1)), name |-> Some(1), email |-> Some(1)]}

\* Documents of one to three entries that differ in their authors.
AuthorDocuments ==
    { [tag |-> "feed",
       entries |-> [p \in 1..Len(as) |-> AuthorEntry(p, as[p])],
       dependencies |-> UploadDependencies]
      : as \in UNION {[1..m -> AuthorElements] : m \in 1..3} }

Documents ==
    CommentDocuments \cup CategoryDocuments \cup AuthorDocuments
    \cup OtherDocuments

\* 341-342 with 92-99: configure calls parse_feed on an uploaded document.
UploadFeed ==
    /\ dpc = "idle"
    /\ \E root \in Documents : select_parser(root)
    /\ UNCHANGED <<next_entry, authors, parsed_posts, blog, _authors,
                   _authors_by_username, _authors_by_email, nobj, categories,
                   _tags, _categories, _categories_by_term, queue, handled,
                   store, writer>>

\* No export has run: the blog of the exporting side plays no part.
InitUpload ==
    /\ script = "standalone"
    /\ pages_plugin = "absent"
    /\ Post_objects = <<>>
    /\ User_objects = <<>>
    /\ Page_objects = <<>>
    /\ participants = <<>>
    /\ options = DefaultOptions
    /\ InitWriter
    /\ InitDecoder

NextUpload ==
    \/ UploadFeed
    \/ ParsePost
    \/ BuildBlog
    \/ Report
    \/ Enqueue

SpecUpload == InitUpload /\ [][NextUpload]_vars

\* ------------------------------------------------------------- claims
\* The positions of out that hold a chunk of the given kind.
ChunksOf(kind) == {k \in 1..Len(out) : out[k].kind = kind}

IsPageEntry(chunk) ==
    chunk.kind = "entry" /\ chunk.content_type = Some("page")
IsPostEntry(chunk) ==
    chunk.kind = "entry" /\ chunk.content_type # Some("page")

\* The entry chunks written for post (for page).
EntriesOfPost(post) ==
    {k \in 1..Len(out) : IsPostEntry(out[k]) /\ out[k].tp_id = str(post.post_id)}
EntriesOfPage(page) ==
    {k \in 1..Len(out) : IsPageEntry(out[k]) /\ out[k].tp_id = str(page.page_id)}

\* C1 (as claimed): whatever the store holds, and whether or not the pages
\* plugin is installed, the generator is exhausted without an exception, its
\* first chunk being the preamble and its last the epilogue.  Stated for
\* stores without participants, whose hooks the claim does not speak of.
C1_GenerateTerminatesNormally ==
    participants = <<>> =>
        /\ pc # "failed"
        /\ err = "none"
        /\ pc = "done" => /\ Len(out) >= 2
                          /\ out[1].kind = "preamble"
                          /\ out[Len(out)].kind = "epilog"

\* C2 (as claimed): in a completed export every post and every page of the
\* store has exactly one entry chunk.
C2_EveryItemOneEntry ==
    pc = "done" =>
        /\ \A k \in 1..Len(Post_objects) :
             Cardinality(EntriesOfPost(Post_objects[k])) = 1
        /\ \A k \in 1..Len(Page_objects) :
             Cardinality(EntriesOfPage(Page_objects[k])) = 1

\* C4 (as claimed): the feed id and the feed's updated value come from the
\* newest post's last_update whenever the store has a post, and from the
\* export's own instant when the store has neither post nor page.
C4_FeedStampFromNewestPost ==
    Len(out) >= 1 =>
        /\ Post_objects # <<>> =>
             /\ out[1].updated = format_iso8601(Post_objects[1].last_update)
             /\ out[1].id = build_tag_uri(Post_objects[1].last_update)
        /\ (Post_objects = <<>> /\ Page_objects = <<>>) =>
             /\ out[1].updated = format_iso8601(Now)
             /\ out[1].id = build_tag_uri(Now)

\* The phase whose code the generator runs at pc:
\* Init 0, Preamble 1, Config 2, PluginBlocks 3, Users 4, Entries 5,
\* Dependencies 6, Done 7.
PhaseOf(p) ==
    CASE p = "start" -> 0
      [] p = "preamble" -> 1
      [] p = "config" -> 2
      [] p = "plugins" -> 3
      [] p = "users" -> 4
      [] p \in {"posts", "pages"} -> 5
      [] p \in {"dependencies", "nodes"} -> 6
      [] p \in {"epilog", "done"} -> 7

\* The phase that yields a chunk of the given kind.
ChunkPhase(kind) ==
    CASE kind = "preamble" -> 1
      [] kind = "configuration" -> 2
      [] kind = "block" -> 3
      [] kind = "entry" -> 5
      [] kind \in {"dependencies_open", "user", "dependencies_close"} -> 6
      [] kind = "epilog" -> 7

PhasesInOrder ==
    /\ \A i, j \in 1..Len(out) :
         i < j => ChunkPhase(out[i].kind) <= ChunkPhase(out[j].kind)
    /\ pc # "failed" =>
         \A k \in 1..Len(out) :
           /\ ChunkPhase(out[k].kind) <= PhaseOf(pc)
           /\ pc # "done" => ChunkPhase(out[k].kind) < 7
    /\ Cardinality(ChunksOf("preamble")) <= 1
    /\ Cardinality(ChunksOf("configuration")) <= 1
    /\ (\E k \in 1..Len(out) : ChunkPhase(out[k].kind) > 2)
         => Cardinality(ChunksOf("configuration")) = 1
    /\ (pc # "failed" /\ PhaseOf(pc) > 2)
         => Cardinality(ChunksOf("configuration")) = 1

PhaseStep ==
    /\ pc = "failed" => pc' = "failed"
    /\ pc = "done" => pc' = "done"
    /\ (pc # "failed" /\ pc' # "failed") =>
         \/ PhaseOf(pc') = PhaseOf(pc)
         \/ PhaseOf(pc') = PhaseOf(pc) + 1

\* C3: the generator goes through Init, Preamble, Config, PluginBlocks,
\* Users, Entries, Dependencies, Done in this order, one phase after the
\* other and never back; the chunks appear in the order of their phases; the
\* configuration block is yielded once, and no more than once.
C3_PhasesSequential == []PhasesInOrder /\ [][PhaseStep]_vars

C3_Witness ==
    /\ pc = "done"
    /\ ChunksOf("block") # {}
    /\ ChunksOf("entry") # {}
    /\ ChunksOf("user") # {}

\* The user the entry chunk stands for: the author of the post it was
\* written for, or the user in whose name pages are written.
RegisteredNode(id) ==
    /\ id \in DOMAIN _dependencies
    /\ _dependencies[id].kind = "user"
    /\ _dependencies[id].dependency = id
    /\ \E k \in 1..Len(User_objects) :
         /\ User_objects[k].user_id = _dependencies[id].username
         /\ User_objects[k].user_id \in DOMAIN users
         /\ users[User_objects[k].user_id] = _dependencies[id]

UserOfNode(id) == _dependencies[id].username

\* C5: when an entry chunk has been yielded every user of the store is
\* registered in the dependency table, and the entry's author element
\* carries the id of a registered user node: the node of the post's author,
\* or for a page the node of a manager.
C5_AuthorsReady ==
    \A e \in ChunksOf("entry") :
        /\ \A k \in 1..Len(User_objects) :
             /\ User_objects[k].user_id \in DOMAIN users
             /\ RegisteredNode(users[User_objects[k].user_id].dependency)
        /\ out[e].dependency # None
        /\ RegisteredNode(Val(out[e].dependency))
        /\ IsPostEntry(out[e]) =>
             \E k \in 1..Len(Post_objects) :
               /\ str(Post_objects[k].post_id) = out[e].tp_id
               /\ Post_objects[k].author = UserOfNode(Val(out[e].dependency))
        /\ IsPageEntry(out[e]) =>
             \E k \in 1..Len(User_objects) :
               /\ User_objects[k].user_id = UserOfNode(Val(out[e].dependency))
               /\ User_objects[k].is_manager

C5_Witness ==
    /\ pc = "done"
    /\ \E e \in ChunksOf("entry") : IsPostEntry(out[e])
    /\ \E e \in ChunksOf("entry") : IsPageEntry(out[e])
    /\ \E k \in 1..Len(User_objects) : ~User_objects[k].is_manager

\* C6: no two canonical nodes of the dependency table carry the same id,
\* every user registered so far has one node of its own (all users once the
\* users loop is over), and in a completed export the id on an entry's
\* author element is the id of exactly one node of the dependencies block.
C6_DependencyIdsUnique ==
    /\ \A i, j \in DOMAIN _dependencies :
         _dependencies[i].dependency = _dependencies[j].dependency => i = j
    /\ \A u, v \in DOMAIN users :
         users[u].dependency = users[v].dependency => u = v
    /\ \A u \in DOMAIN users :
         /\ users[u].dependency \in DOMAIN _dependencies
         /\ _dependencies[users[u].dependency] = users[u]
         /\ users[u].username = u
    /\ Cardinality(DOMAIN _dependencies) = Cardinality(DOMAIN users)
    /\ (pc # "failed" /\ PhaseOf(pc) > 4) =>
         /\ Cardinality(DOMAIN users) = Len(User_objects)
         /\ \A k \in 1..Len(User_objects) :
              User_objects[k].user_id \in DOMAIN users
    /\ pc = "done" =>
         \A e \in ChunksOf("entry") :
           /\ out[e].dependency # None
           /\ Cardinality({n \in ChunksOf("user") :
                             out[n].dependency = Val(out[e].dependency)}) = 1

C6_Witness ==
    /\ pc = "done"
    /\ Cardinality(DOMAIN _dependencies) >= 2
    /\ Cardinality(ChunksOf("entry")) >= 2

\* C7: the dependencies container is opened only when no post and no page
\* is left to dump, and no entry follows it; it is opened once and closed
\* once, with the canonical nodes, each once, in between; for an empty
\* table nothing of it is yielded.
C7_DependenciesLast ==
    /\ \A o \in ChunksOf("dependencies_open") :
         /\ posts = <<>>
         /\ pages.items = <<>>
         /\ \A e \in ChunksOf("entry") : e < o
         /\ \A n \in ChunksOf("user") : o < n
    /\ \A c \in ChunksOf("dependencies_close") :
         /\ \A n \in ChunksOf("user") : n < c
         /\ \E o \in ChunksOf("dependencies_open") : o < c
    /\ Cardinality(ChunksOf("dependencies_open")) <= 1
    /\ Cardinality(ChunksOf("dependencies_close")) <= 1
    /\ ChunksOf("user") # {} => ChunksOf("dependencies_open") # {}
    /\ \A n, m \in ChunksOf("user") :
         out[n].dependency = out[m].dependency => n = m
    /\ \A n \in ChunksOf("user") :
         /\ out[n].dependency \in DOMAIN _dependencies
         /\ out[n] = _dependencies[out[n].dependency]
    /\ pc = "done" =>
         IF DOMAIN _dependencies = {}
         THEN /\ ChunksOf("dependencies_open") = {}
              /\ ChunksOf("dependencies_close") = {}
              /\ ChunksOf("user") = {}
         ELSE /\ Cardinality(ChunksOf("dependencies_open")) = 1
              /\ Cardinality(ChunksOf("dependencies_close")) = 1
              /\ {out[n].dependency : n \in ChunksOf("user")}
                   = DOMAIN _dependencies

C7_Witness ==
    /\ pc = "done"
    /\ ChunksOf("dependencies_close") # {}
    /\ \E e \in ChunksOf("entry") : IsPageEntry(out[e])
    /\ \E e \in ChunksOf("entry") : IsPostEntry(out[e])

\* The other case of C7: a completed export of a store without users.
C7_EmptyTableReached == pc = "done" /\ DOMAIN _dependencies = {}

\* The comment elements of an entry element that have no parent (the
\* exporter writes an empty tp:parent for them) and those that have one.
TopLevel(entry) ==
    {j \in 1..Len(entry.comments) : entry.comments[j].parent = Some(<<>>)}
Children(entry) ==
    {j \in 1..Len(entry.comments) : entry.comments[j].parent # Some(<<>>)}

HasParentChain(entry) == TopLevel(entry) # {} /\ Children(entry) # {}

\* The decoded comments of post are those of entry, with the parent links
\* the elements declare.
ParentsRestored(entry, post) ==
    \A j \in 1..Len(entry.comments) :
        LET element == entry.comments[j]
        IN /\ int(element.id) \in DOMAIN post.comments
           /\ IF j \in TopLevel(entry)
              THEN post.comments[int(element.id)].parent = None
              ELSE /\ int(Val(element.parent)) \in DOMAIN post.comments
                   /\ post.comments[int(element.id)].parent
                        = Some(post.comments[int(Val(element.parent))].oid)

\* C8 (as claimed): when the document of a completed export holds the entry
\* of a post with a top-level comment and a child comment, decoding it does
\* not fail, and in the decoded post every child comment's parent is the
\* comment object decoded from the element with the declared parent id and
\* every top-level comment has no parent.
C8_CommentsRoundTrip ==
    \A k \in 1..Len(tree.entries) :
        (pc = "done" /\ HasParentChain(tree.entries[k])) =>
            /\ dpc # "failed"
            /\ k <= Len(parsed_posts) =>
                 ParentsRestored(tree.entries[k], parsed_posts[k])

\* C9 (as claimed): the blog decoded from the export of a store with two
\* users and two posts, both written by the same user, has two authors, one
\* for each user, and not the same author twice.
C9_AuthorsRoundTrip ==
    ( /\ pc = "done"
      /\ dpc = "done"
      /\ Len(User_objects) = 2
      /\ Len(Post_objects) = 2
      /\ Post_objects[1].author = Post_objects[2].author ) =>
        /\ Len(Val(blog).authors) = 2
        /\ Val(blog).authors[1].oid # Val(blog).authors[2].oid
        /\ {Val(Val(blog).authors[i].username) : i \in 1..2}
             = {User_objects[i].user_id : i \in 1..2}

AuthorCacheSound ==
    /\ \A i, j \in 1..Len(authors) :
         authors[i].oid = authors[j].oid => i = j
    /\ Len(authors) = Cardinality(DOMAIN _authors)
    /\ \A d \in DOMAIN _authors :
         /\ Cardinality({i \in 1..Len(authors) : authors[i] = _authors[d]}) = 1
         /\ tree.dependencies # None
         /\ \E i \in 1..Len(Val(tree.dependencies)) :
              /\ Val(tree.dependencies)[i].dependency = d
              /\ _authors[d].username = Some(Val(tree.dependencies)[i].username)
    /\ \A d, e \in DOMAIN _authors : _authors[d].oid = _authors[e].oid => d = e
    /\ \A k \in 1..Len(parsed_posts) :
         /\ tree.entries[k].dependency # None
         /\ Val(tree.entries[k].dependency) \in DOMAIN _authors
         /\ parsed_posts[k].author = _authors[Val(tree.entries[k].dependency)]
    /\ \A k, l \in 1..Len(parsed_posts) :
         tree.entries[k].dependency = tree.entries[l].dependency
            => parsed_posts[k].author.oid = parsed_posts[l].author.oid

AuthorCacheStep ==
    /\ \A d \in DOMAIN _authors :
         d \in DOMAIN _authors' /\ _authors'[d] = _authors[d]
    /\ Len(authors') >= Len(authors)
    /\ SubSeq(authors', 1, Len(authors)) = authors
    /\ Len(authors') - Len(authors)
         = Cardinality(DOMAIN _authors' \ DOMAIN _authors)
    /\ Len(authors') - Len(authors) <= 1

\* C10: the first lookup of a dependency id builds one author from the
\* canonical user element with that id, caches it under the id and appends
\* it to the parser's author list once; every later lookup of the id gives
\* the cached author, so that the posts citing one id have one and the same
\* author object and no author is twice in the list.
C10_AuthorCache == []AuthorCacheSound /\ [][AuthorCacheStep]_vars

C10_Witness ==
    /\ dpc = "done"
    /\ Len(authors) >= 2
    /\ \E k, l \in 1..Len(parsed_posts) :
         /\ k # l
         /\ parsed_posts[k].author.oid = parsed_posts[l].author.oid

\* ---------------------------------------------- claims on uploaded files
\* The comment ids of the whole document.
CommentIds(root) ==
    UNION { {int(root.entries[k].comments[j].id)
               : j \in 1..Len(root.entries[k].comments)}
            : k \in 1..Len(root.entries) }

\* The element declares a parent id.
DeclaresParentId(element) ==
    element.parent # None /\ IsIntLiteral(Val(element.parent))

\* The entry has a comment whose declared parent id is the id of no comment
\* of the document.
HasDangling(entry, root) ==
    \E j \in 1..Len(entry.comments) :
        /\ DeclaresParentId(entry.comments[j])
        /\ int(Val(entry.comments[j].parent)) \notin CommentIds(root)

\* C11: the decode of a document with a comment whose declared parent id is
\* the id of no comment of the document fails: parse_feed returns no blog,
\* nothing is enqueued, and the entry of that comment never becomes a post.
C11_DanglingParentRejected ==
    \A k \in 1..Len(tree.entries) :
        HasDangling(tree.entries[k], tree) =>
            /\ dpc \notin {"done", "enqueued"}
            /\ blog = None
            /\ queue = <<>>
            /\ Len(parsed_posts) < k

C11_Witness ==
    /\ dpc = "reported"
    /\ derr = "KeyError"
    /\ HasDangling(tree.entries[1], tree)

\* The decode of the entry gets as far as resolving the parents, and a
\* declared parent id is the id of no comment of the entry.
FailsToResolve(entry) ==
    /\ \A j \in 1..Len(entry.comments) :
         /\ IsIntLiteral(entry.comments[j].id)
         /\ entry.comments[j].parent # None
              => IsIntLiteral(Val(entry.comments[j].parent))
    /\ \E j \in 1..Len(entry.comments) :
         /\ entry.comments[j].parent # None
         /\ \A i \in 1..Len(entry.comments) :
              int(entry.comments[i].id) # int(Val(entry.comments[j].parent))

IsFeedImportError(exc) == exc \in {UnknownFeed, RSSNotPossible}

\* C12 (as claimed): when parse_feed ends because a declared parent id does
\* not resolve, the exception it raises is a FeedImportError.
C12_UnresolvedParentIsFeedImportError ==
    ( /\ dpc \in {"failed", "reported"}
      /\ parser_class(tree.tag) = "AtomParser"
      /\ next_entry <= Len(tree.entries)
      /\ FailsToResolve(tree.entries[next_entry]) )
        => IsFeedImportError(derr)

\* C13: for a root tag rss parse_feed raises the FeedImportError of the
\* variant that cannot be imported, for any other root tag than atom:feed
\* the FeedImportError of an unknown feed; no entry is parsed, no object is
\* made, no blog is built or enqueued.
C13_RootTagSelectsVariant ==
    tree.tag \notin {"none", "feed"} =>
        /\ dpc \in {"failed", "reported"}
        /\ derr = (IF tree.tag = "rss" THEN RSSNotPossible ELSE UnknownFeed)
        /\ next_entry = 1
        /\ parsed_posts = <<>>
        /\ authors = <<>>
        /\ categories = <<>>
        /\ nobj = 0
        /\ blog = None
        /\ queue = <<>>

C13_Witness ==
    /\ dpc = "reported"
    /\ tree.tag = "rss"
    /\ tree.entries # <<>>

C13_UnknownReached == dpc = "reported" /\ tree.tag = "html"

\* The objects the category elements with the given term were decoded to.
ObjectsFor(term) ==
    UNION { {o \in {parsed_posts[k].tags[i]
                      : i \in 1..Len(parsed_posts[k].tags)}
                   \cup {parsed_posts[k].categories[i]
                           : i \in 1..Len(parsed_posts[k].categories)}
               : o.term = term}
            : k \in 1..Len(parsed_posts) }

\* C14 (as claimed): all category elements of a document that have the same
\* term are decoded to one object, whatever their order and their scheme
\* attributes.
C14_SameTermSameObject ==
    \A term \in {1, 2} : Cardinality(ObjectsFor(term)) <= 1

\* C16: a blog exists only when every entry was parsed and handle_root ran,
\* and holds all the posts; a blog is enqueued exactly when parse_feed
\* returned it; after an exception no blog exists and nothing is enqueued.
C16_NoPartialGraph ==
    /\ blog # None =>
         /\ dpc \in {"done", "enqueued"}
         /\ next_entry = Len(tree.entries) + 1
         /\ Len(parsed_posts) = Len(tree.entries)
         /\ Val(blog).posts = parsed_posts
         /\ Val(blog).authors = authors
         /\ Val(blog).configuration
    /\ dpc \in {"done", "enqueued"} => blog # None /\ derr = "none"
    /\ dpc = "enqueued" <=> queue # <<>>
    /\ queue # <<>> => queue = <<Val(blog)>>
    /\ dpc \in {"failed", "reported"} =>
         /\ blog = None
         /\ queue = <<>>
         /\ derr # "none"

C16_Witness ==
    /\ dpc = "reported"
    /\ Len(parsed_posts) >= 1
    /\ queue = <<>>

C16_EnqueuedReached == dpc = "enqueued" /\ Len(Val(blog).posts) = 2

\* ------------------------------------------ claims on options and hooks
\* The slugs --keep-as-tag named; none when the option was not given.
KeepList ==
    IF options.keep_as_tags = None THEN {} ELSE Val(options.keep_as_tags)

\* C15 (as claimed): for every tag and every value of the three options the
\* classification gives the tag one of the two schemes, and with
\* tags_to_categories every tag whose slug is not in the keep list gets the
\* category scheme.
C15_SchemeFunctionOfTagAndOptions ==
    /\ err # "TypeError"
    /\ script = "shared" =>
         \A k \in 1..Len(Post_objects) :
           \A e \in EntriesOfPost(Post_objects[k]) :
             LET tags == Post_objects[k].tags
                 elements == out[e].categories
             IN /\ Len(elements) = Len(tags)
                /\ \A i \in 1..Len(tags) :
                     /\ elements[i].term = tags[i].slug
                     /\ elements[i].scheme \in {Some(TEXTPRESS_TAG_URI),
                                               Some(TEXTPRESS_CATEGORY_URI)}
                     /\ (options.tags_to_categories
                         /\ tags[i].slug \notin KeepList)
                          => elements[i].scheme = Some(TEXTPRESS_CATEGORY_URI)

KindsOf(chunks) == [k \in 1..Len(chunks) |-> chunks[k].kind]

\* C17 (as claimed): the export of a store without posts, users (and pages,
\* and without participants) ends without an exception; the document is
\* the preamble, the configuration block and the epilogue, its updated
\* value is the instant of the export, and it has no dependencies
\* container.
C17_EmptyStoreExport ==
    ( /\ Post_objects = <<>>
      /\ User_objects = <<>>
      /\ Page_objects = <<>>
      /\ participants = <<>>
      /\ pc \in {"done", "failed"} ) =>
        /\ pc = "done"
        /\ well_formed(out)
        /\ KindsOf(out) = <<"preamble", "configuration", "epilog">>
        /\ out[1].updated = format_iso8601(Now)
        /\ ChunksOf("dependencies_open") = {}
        /\ ChunksOf("dependencies_close") = {}

\* C18 (as claimed): once the generator is past its Config step, the setup
\* hook of every participant has run, in registration order, and the
\* configuration block has been yielded after them; this for participants
\* of every kind, those that only inherit the Participant class included.
C18_SetupBeforeConfiguration ==
    /\ ChunksOf("configuration") # {}
         => hooks = [k \in 1..Len(participants) |-> k]
    /\ (Len(out) >= 1 /\ pc # "config") =>
         /\ hooks = [k \in 1..Len(participants) |-> k]
         /\ ChunksOf("configuration") # {}

\* The participants whose dump_data returns a node.
ReturnsNode == {k \in 1..Len(participants) : participants[k] = "block"}

\* C19: a block is yielded for a participant only when its dump_data
\* returned a node, at most once, in the order of the participants, after
\* the configuration block and before any user is registered and any entry
\* or node is yielded; when the participants loop is over there is a block
\* for each participant whose dump_data returns a node.
C19_ParticipantBlocks ==
    /\ \A b \in ChunksOf("block") :
         /\ out[b].of \in ReturnsNode
         /\ \E c \in ChunksOf("configuration") : c < b
         /\ \A e \in 1..Len(out) :
              out[e].kind \in {"entry", "dependencies_open", "user",
                               "dependencies_close", "epilog"} => b < e
    /\ \A b, c \in ChunksOf("block") : b < c <=> out[b].of < out[c].of
    /\ pc = "plugins" =>
         /\ users = <<>>
         /\ _dependencies = <<>>
         /\ {out[b].of : b \in ChunksOf("block")}
              = {k \in ReturnsNode : k < cursor}
    /\ (ChunksOf("configuration") # {} /\ pc # "plugins") =>
         {out[b].of : b \in ChunksOf("block")} = ReturnsNode
    /\ (users # <<>> \/ _dependencies # <<>>) =>
         {out[b].of : b \in ChunksOf("block")} = ReturnsNode

C19_Witness ==
    /\ pc = "done"
    /\ Cardinality(ChunksOf("block")) = 2
    /\ ChunksOf("entry") # {}
    /\ users # <<>>

C19_MixedReached ==
    /\ pc = "done"
    /\ participants = <<"silent", "block">>
    /\ Cardinality(ChunksOf("block")) = 1

\* C20 (as claimed): the canonical nodes are yielded in the order in which
\* they were registered, which is the order of User.objects.all() (the
\* k-th user registered is the user with user_id k).
C20_NodesInRegistrationOrder ==
    \A i, j \in ChunksOf("user") :
        i < j => out[i].username < out[j].username

\* --------------------------------------- claims on the table and the tags
\* C21 (as claimed): once the dependencies container has been closed the
\* dependency table is empty.
C21_TableEmptyAfterFlush ==
    ChunksOf("dependencies_close") # {} => _dependencies = <<>>

\* The users registered so far are the first ones of User.objects.all().
Registered == {k \in 1..Len(User_objects) : User_objects[k].user_id \in DOMAIN users}

IdsInOrder ==
    /\ \E n \in 0..Len(User_objects) :
         /\ Registered = 1..n
         /\ DOMAIN _dependencies = {Hex(k) : k \in 1..n}
    /\ \A k \in Registered :
         /\ users[User_objects[k].user_id].dependency = Hex(k)
         /\ _dependencies[Hex(k)] = users[User_objects[k].user_id]
    /\ \A id \in DOMAIN _dependencies : _dependencies[id].dependency = id

IdsKept ==
    \A id \in DOMAIN _dependencies :
        /\ id \in DOMAIN _dependencies'
        /\ _dependencies'[id] = _dependencies[id]

\* C22: the n-th node registered in an export is stamped with the
\* hexadecimal form of n and stored under it, and a node once stored stays
\* under its id, unchanged, for the rest of the export.
C22_IdsCountUp == []IdsInOrder /\ [][IdsKept]_vars

C22_Witness ==
    /\ pc = "done"
    /\ Cardinality(DOMAIN _dependencies) = MaxUsers
    /\ MaxUsers >= 2

\* The tag the i-th category element of entry chunk e was written for.
TagOf(e, i) ==
    LET post == CHOOSE q \in {Post_objects[k] : k \in 1..Len(Post_objects)} :
                    str(q.post_id) = out[e].tp_id
    IN post.tags[i]

TaggedElements ==
    {<<e, i>> \in (1..Len(out)) \X (1..2) :
        /\ IsPostEntry(out[e])
        /\ i <= Len(out[e].categories)}

\* C23 (as claimed): the options decide in the order
\* description_to_category, tags_to_categories, keep list: a described tag
\* under description_to_category is a category; if that option does not
\* apply, any tag under tags_to_categories is a category; only a tag that
\* neither makes a category stays a tag, in the keep list or not.
C23_OptionsInPrecedenceOrder ==
    \A x \in TaggedElements :
        LET tag == TagOf(x[1], x[2])
            scheme == out[x[1]].categories[x[2]].scheme
        IN IF tag.description /\ options.description_to_category
           THEN scheme = Some(TEXTPRESS_CATEGORY_URI)
           ELSE IF options.tags_to_categories
           THEN scheme = Some(TEXTPRESS_CATEGORY_URI)
           ELSE scheme = Some(TEXTPRESS_TAG_URI)

\* C23 (amended): a category element written for a tag has the category
\* scheme exactly when the tag is described and description_to_category is
\* set, or tags_to_categories is set, and the slug is not in the keep list;
\* the keep list overrides the two other options, which rank alike.
C23_KeepListOverrides ==
    \A x \in TaggedElements :
        LET tag == TagOf(x[1], x[2])
            scheme == out[x[1]].categories[x[2]].scheme
        IN /\ out[x[1]].categories[x[2]].term = tag.slug
           /\ scheme = IF /\ \/ tag.description /\ options.description_to_category
                             \/ options.tags_to_categories
                          /\ tag.slug \notin KeepList
                       THEN Some(TEXTPRESS_CATEGORY_URI)
                       ELSE Some(TEXTPRESS_TAG_URI)

C23_Witness ==
    \E x \in TaggedElements :
        /\ pc = "done"
        /\ TagOf(x[1], x[2]).description
        /\ options.description_to_category
        /\ ~options.tags_to_categories
        /\ TagOf(x[1], x[2]).slug \in KeepList
        /\ out[x[1]].categories[x[2]].scheme = Some(TEXTPRESS_TAG_URI)

\* C24: the category element of a tag whose slug is in the keep list has
\* the tag scheme, whatever the two other options and whether or not the
\* tag has a description.
C24_KeptTagsStayTags ==
    \A x \in TaggedElements :
        TagOf(x[1], x[2]).slug \in KeepList =>
            out[x[1]].categories[x[2]].scheme = Some(TEXTPRESS_TAG_URI)

C24_Witness ==
    \E x \in TaggedElements :
        /\ pc = "done"
        /\ options.tags_to_categories
        /\ TagOf(x[1], x[2]).slug \in KeepList
        /\ Len(out[x[1]].categories) = 2

\* main() refuses --tags-to-categories together with
\* --with-descriptions-to-categories (shared 407-409).
MainAccepts ==
    ~(options.tags_to_categories /\ options.description_to_category)

\* C25 (as claimed): under every option combination main() accepts the
\* tags loop raises nothing, and the entry of a post has one category
\* element for each of its tags.
C25_AcceptedOptionsClassify ==
    (script = "shared" /\ MainAccepts) =>
        /\ err # "TypeError"
        /\ \A e \in 1..Len(out) :
             IsPostEntry(out[e]) =>
               \E k \in 1..Len(Post_objects) :
                 /\ str(Post_objects[k].post_id) = out[e].tp_id
                 /\ Len(out[e].categories) = Len(Post_objects[k].tags)

\* ------------------------------------ claims on comments, terms and authors
\* The ids of the comment elements of one entry.
OwnCommentIds(entry) ==
    {int(entry.comments[j].id) : j \in 1..Len(entry.comments)}

\* A comment element of the entry declares as parent an id that no comment
\* element of the same entry has.
ParentOutsideEntry(entry) ==
    \E j \in 1..Len(entry.comments) :
        /\ DeclaresParentId(entry.comments[j])
        /\ int(Val(entry.comments[j].parent)) \notin OwnCommentIds(entry)

\* Every comment element of the entry has no tp:parent or declares the id
\* of a comment element of the same entry, before or after it.
ParentsInsideEntry(entry) ==
    \A j \in 1..Len(entry.comments) :
        \/ entry.comments[j].parent = None
        \/ /\ DeclaresParentId(entry.comments[j])
           /\ int(Val(entry.comments[j].parent)) \in OwnCommentIds(entry)

\* C26: in a decoded post every comment whose element declares a parent id
\* has as parent the comment of the same entry with that id, whether that
\* comment's element comes before or after its own, and a comment whose
\* element has no tp:parent has none; the decode never ends with a
\* KeyError in an entry whose declared parent ids are all ids of its own
\* comments; an entry with a comment whose declared parent id belongs to
\* no comment of the same entry never becomes a post, also when another
\* entry has a comment with that id.
C26_ParentsResolvedWithinEntry ==
    \A k \in 1..Len(tree.entries) :
        LET entry == tree.entries[k]
        IN /\ ParentOutsideEntry(entry) => Len(parsed_posts) < k
           /\ ParentsInsideEntry(entry) =>
                ~(/\ dpc \in {"failed", "reported"}
                  /\ derr = "KeyError"
                  /\ Len(parsed_posts) = k - 1)
           /\ k <= Len(parsed_posts) =>
                \A j \in 1..Len(entry.comments) :
                    LET element == entry.comments[j]
                        comment == parsed_posts[k].comments[int(element.id)]
                    IN IF element.parent = None
                       THEN comment.parent = None
                       ELSE /\ DeclaresParentId(element)
                            /\ int(Val(element.parent)) \in OwnCommentIds(entry)
                            /\ comment.parent =
                                 Some(parsed_posts[k].comments[
                                        int(Val(element.parent))].oid)

\* A post whose first comment has the second one, declared after it, as
\* parent.
C26_Witness ==
    /\ dpc = "enqueued"
    /\ Len(tree.entries[1].comments) = 2
    /\ tree.entries[1].comments[1].parent = Some(tree.entries[1].comments[2].id)
    /\ tree.entries[1].comments[2].parent = None
    /\ parsed_posts[1].comments[int(tree.entries[1].comments[1].id)].parent
         = Some(parsed_posts[1].comments[int(tree.entries[1].comments[2].id)].oid)

\* The parent id is the id of a comment of the other entry.
C26_OtherEntryReached ==
    /\ dpc = "reported"
    /\ derr = "KeyError"
    /\ Len(tree.entries) = 2
    /\ ParentOutsideEntry(tree.entries[1])
    /\ ~HasDangling(tree.entries[1], tree)

Range(f) == {f[x] : x \in DOMAIN f}

ClaimedByExtension(element) ==
    element.scheme \in {Some(TEXTPRESS_TAG_URI), Some(TEXTPRESS_CATEGORY_URI)}

IsTagElement(element) == element.scheme = Some(TEXTPRESS_TAG_URI)
IsNoTagElement(element) == element.scheme # Some(TEXTPRESS_TAG_URI)

\* The terms of the entries parsed so far whose elements no extension
\* claimed.
UnclaimedTerms ==
    {tree.entries[k].categories[i].term :
        <<k, i>> \in {x \in (1..Len(parsed_posts)) \X (1..2) :
                        /\ x[2] <= Len(tree.entries[x[1]].categories)
                        /\ ~ClaimedByExtension(
                               tree.entries[x[1]].categories[x[2]])}}

KnownAuthors ==
    Range(_authors) \cup Range(_authors_by_email)
    \cup Range(_authors_by_username) \cup Range(authors)

\* A step that makes a post gives it the author the chain finds in the
\* caches as they were before the step.
AuthorChainStep ==
    Len(parsed_posts') = Len(parsed_posts) + 1 =>
        LET entry == tree.entries[next_entry]
            author == parsed_posts'[Len(parsed_posts')].author
        IN IF entry.dependency # None
           THEN /\ author = _authors'[Val(entry.dependency)]
                /\ Val(entry.dependency) \in DOMAIN _authors
                     => author = _authors[Val(entry.dependency)]
           ELSE IF /\ entry.email # None
                   /\ Val(entry.email) \in DOMAIN _authors_by_email
           THEN /\ author = _authors_by_email[Val(entry.email)]
                /\ authors' = authors
           ELSE IF /\ entry.name # None
                   /\ Val(entry.name) \in DOMAIN _authors_by_username
           THEN /\ author = _authors_by_username[Val(entry.name)]
                /\ authors' = authors
           ELSE /\ author \notin KnownAuthors
                /\ author.username = entry.name
                /\ author.email = entry.email
                /\ authors' = Append(authors, author)
                /\ entry.email # None
                     => _authors_by_email'[Val(entry.email)] = author
                /\ entry.name # None
                     => _authors_by_username'[Val(entry.name)] = author

\* An email or a username that maps to an author keeps mapping to it.
FirstSeenWins ==
    /\ \A e \in DOMAIN _authors_by_email :
         /\ e \in DOMAIN _authors_by_email'
         /\ _authors_by_email'[e] = _authors_by_email[e]
    /\ \A u \in DOMAIN _authors_by_username :
         /\ u \in DOMAIN _authors_by_username'
         /\ _authors_by_username'[u] = _authors_by_username[u]

\* C28: the author of an entry is the extension's author when the element
\* cites a dependency; otherwise the author already mapped to its email;
\* otherwise the one mapped to its username; otherwise a new author, who
\* is remembered and appended to parser.authors.  No step changes what an
\* email or a username is mapped to.
C28_AuthorChain == [][AuthorChainStep /\ FirstSeenWins]_vars

\* Three entries without dependency: the third has the username of the
\* first and the email of the second, and gets the author of the second.
C28_Witness ==
    /\ dpc = "enqueued"
    /\ Len(parsed_posts) = 3
    /\ \A k \in 1..3 : tree.entries[k].dependency = None
    /\ tree.entries[3].name = tree.entries[1].name
    /\ tree.entries[3].email = tree.entries[2].email
    /\ parsed_posts[1].author # parsed_posts[2].author
    /\ parsed_posts[3].author = parsed_posts[2].author
    /\ Len(authors) = 2

\* The username of the user node was first seen on an inline author.
C28_ExtensionAfterInlineReached ==
    /\ dpc = "enqueued"
    /\ Len(parsed_posts) = 2
    /\ tree.entries[1].dependency = None
    /\ tree.entries[2].dependency # None
    /\ parsed_posts[1].author.username = parsed_posts[2].author.username
    /\ parsed_posts[1].author # parsed_posts[2].author
    /\ _authors_by_username[1] = parsed_posts[1].author

HandledInTime ==
    /\ dpc \in {"done", "enqueued"} =>
         /\ handled = extensions
         /\ blog # None
         /\ Len(Val(blog).posts) = Len(tree.entries)
    /\ dpc \notin {"done", "enqueued"} => handled = <<>>

HandledStep ==
    handled' # handled =>
        /\ handled = <<>>
        /\ handled' = extensions
        /\ Len(parsed_posts) = Len(tree.entries)
        /\ parsed_posts' = parsed_posts
        /\ blog = None
        /\ blog' # None

C29_FailedReached ==
    /\ dpc = "reported"
    /\ Len(parsed_posts) = 1
    /\ Len(tree.entries) = 2
    /\ handled = <<>>

\* C30 (as claimed): after a successful decode every tag of a post is in
\* blog.tags and every category of a post is in blog.categories.
C30_PostTermsInBlogLists ==
    dpc \in {"done", "enqueued"} =>
        \A k \in 1..Len(Val(blog).posts) :
            /\ Range(Val(blog).posts[k].tags) \subseteq Range(Val(blog).tags)
            /\ Range(Val(blog).posts[k].categories)
                 \subseteq Range(Val(blog).categories)

\* --------------------------------------- claims on the pages and the buffer
\* The page entries yielded so far, as page ids in the order of the chunks.
PageIdsOut ==
    LET ks == SelectSeq([k \in 1..Len(out) |-> out[k]], IsPageEntry)
    IN [i \in 1..Len(ks) |-> ks[i].tp_id]

PageIdsOf(items) == [i \in 1..Len(items) |-> str(items[i].page_id)]

\* C31 (as claimed): the export of a store with no post and with pages
\* yields no page entry.
C31_PagesDroppedWithoutPosts ==
    (script = "shared" /\ Post_objects = <<>> /\ Page_objects # <<>>) =>
        PageIdsOut = <<>>

\* C31 (amended): in the export of a store with no post the lookup of the
\* first items takes nothing from the pages iterator: at every point the
\* page entries yielded so far followed by the pages the iterator has yet
\* to give are the whole page list the plugin gave, and an export that
\* reaches its end has yielded one entry for every page, in that order.
C31_PagesKeptWithoutPosts ==
    (script = "shared" /\ Post_objects = <<>> /\ pc # "start") =>
        /\ pages = InitialPages \/ InitialPages.bound
        /\ PageIdsOut \o PageIdsOf(pages.items) = PageIdsOf(InitialPages.items)
        /\ pc = "done" => PageIdsOut = PageIdsOf(InitialPages.items)

C31_Witness ==
    /\ script = "shared"
    /\ Post_objects = <<>>
    /\ Page_objects # <<>>
    /\ pc = "done"
    /\ PageIdsOut = PageIdsOf(Page_objects)

\* A step yields at most one chunk, put after the chunks yielded before.
OneChunkAStep ==
    /\ Len(out') <= Len(out) + 1
    /\ SubSeq(out', 1, Len(out)) = out

\* C32: the buffer of the fragment writer is empty wherever the generator
\* stands between two of its steps, and no step yields more than the one
\* chunk of the node it dumped: nothing written for one node is left over
\* for a later chunk.
C32_BufferDrained == [](_buffer = <<>>) /\ [][OneChunkAStep]_vars

\* An export that dumped a configuration block, a post, a page and a user
\* node, each through dump_node.
C32_Witness ==
    /\ pc = "done"
    /\ _buffer = <<>>
    /\ ChunksOf("configuration") # {}
    /\ ChunksOf("user") # {}
    /\ \E k \in 1..Len(out) : IsPostEntry(out[k])
    /\ \E k \in 1..Len(out) : IsPageEntry(out[k])

====
